---- MODULE Spec2Model ----
(***************************************************************************)
(* Model of the PubSubSensor Arduino sketches:                             *)
(*   "cmd"     examples/arduino/accelerometer_and_thermistor.ino           *)
(*             (command-gated reports, two thermistor channels)            *)
(*   "accel"   unnamed/part_000 (continuous JSON report, accelerometer)    *)
(*   "therm"   unnamed/part_001 (continuous JSON report, accelerometer and *)
(*             one thermistor channel)                                     *)
(* Each sketch is setup() run once, then loop() run again and again.       *)
(*                                                                         *)
(* Numbers.  A C double is a record [n, d] denoting n/d:                   *)
(*   d > 0            a finite value (kept in lowest terms)                *)
(*   [n |-> 1, d |-> 0]   +infinity      [n |-> -1, d |-> 0]  -infinity    *)
(*   [n |-> 0, d |-> 0]   NaN                                              *)
(* so that x/0, inf-inf, 0*inf ... come out as IEEE-754 gives them.        *)
(* + - * / are exact while numerator and denominator stay below Lim and    *)
(* are rounded to the grid 1/Scale beyond it; log, exp and pow are         *)
(* evaluated in fixed point on that grid.  The value e^v of exp() is kept  *)
(* as [sgn, ln] (sign and natural logarithm, ln on the grid), since        *)
(* exp(B/298.15) does not fit the grid's integer range.                    *)
(***************************************************************************)
EXTENDS Integers, Sequences, FiniteSets, TLC

Scale == 10^4
Lim == 2^27

Abs(x) == IF x < 0 THEN -x ELSE x
Sign(x) == IF x < 0 THEN -1 ELSE IF x > 0 THEN 1 ELSE 0

(* The one element of a singleton set.  Written The({ e : x \in {a} }), it *)
(* is e with x bound to the value of a: a is evaluated once, however often *)
(* e uses x.                                                               *)
The(S) == CHOOSE r \in S : TRUE

RECURSIVE GCD(_, _)
GCD(a, b) == IF b = 0 THEN a ELSE GCD(b, a % b)

(* quotient and remainder of a*b by c, for 0 <= a < c < 2^29 and b >= 0, *)
(* without forming a*b                                                   *)
RECURSIVE MulDivQR(_, _, _)
MulDivQR(a, b, c) ==
    IF b = 0 THEN [q |-> 0, r |-> 0]
    ELSE The({ [q |-> 2 * h.q + (2 * h.r + t) \div c, r |-> (2 * h.r + t) % c] :
               h \in { MulDivQR(a, b \div 2, c) }, t \in { (b % 2) * a } })

(* a*b/c rounded to nearest (halves away from zero), c > 0 *)
MulDivV(x, y, z, w) ==
    Sign(x) * Sign(y) * ((Abs(x) \div z) * Abs(y) + w.q + (IF 2 * w.r >= z THEN 1 ELSE 0))
MulDiv(a, b, c) ==
    The({ The({ MulDivV(x, y, z, w) : w \in { MulDivQR(Abs(x) % z, Abs(y), z) } }) :
          x \in {a}, y \in {b}, z \in {c} })

Norm(n, d) ==
    The({ IF y = 0 THEN [n |-> Sign(x), d |-> 0]
          ELSE The({ [n |-> Sign(y) * (x \div g), d |-> Sign(y) * (y \div g)] :
                     g \in { GCD(Abs(x), Abs(y)) } }) :
          x \in {n}, y \in {d} })

Num(n, d) == Norm(n, d)
NaN == [n |-> 0, d |-> 0]
PInf == [n |-> 1, d |-> 0]
NInf == [n |-> -1, d |-> 0]
Zero == [n |-> 0, d |-> 1]

IsLog(a) == "ln" \in DOMAIN a

Fits(x, y) == x = 0 \/ y = 0 \/ Abs(x) <= Lim \div Abs(y)

(* a finite [n, d] on the grid: the integer nearest to (n/d)*Scale *)
Fix(a) == MulDiv(a.n, Scale, a.d)
Grid(v) == [n |-> v, d |-> Scale]

(* natural logarithm of n/d > 0 on the grid: halve or double into [1, 2), *)
(* then 2*atanh(z) for z = (m-1)/(m+1), by its series up to z^9           *)
Ln2 == MulDiv(6931472, Scale, 10^7)
RECURSIVE AtanhSeries(_, _, _)
AtanhSeries(zk, z2, k) ==
    IF k > 9 THEN 0
    ELSE The({ MulDiv(2, t, k) + AtanhSeries(MulDiv(t, z2, Scale), z2, k + 2) :
               t \in {zk} })
Atanh2(z) == The({ AtanhSeries(v, v2, 1) : v2 \in { MulDiv(z, z, Scale) }, v \in {z} })

RECURSIVE LnFix(_, _)
LnFix(n, d) ==
    The({ IF x >= 2 * y THEN LnFix(x, 2 * y) + Ln2
          ELSE IF x < y THEN LnFix(2 * x, y) - Ln2
          ELSE Atanh2(MulDiv(x - y, Scale, x + y)) :
          x \in {n}, y \in {d} })

(* e^(x/Scale) on the grid, for x/Scale below about 12: by squaring down *)
(* to |x| <= 1/2, then the series up to x^6/720                          *)
RECURSIVE ExpSeries(_, _, _)
ExpSeries(term, x, k) ==
    IF k > 6 THEN 0
    ELSE The({ t + ExpSeries(MulDiv(t, x, k * Scale), x, k + 1) : t \in {term} })
ExpSquare(h, odd) == MulDiv(h, IF odd THEN h + MulDiv(h, 1, 2 * Scale) ELSE h, Scale)
RECURSIVE ExpFix(_)
ExpFix(x) ==
    The({ IF Abs(v) > Scale \div 2
          THEN The({ ExpSquare(h, v % 2 = 1) : h \in { ExpFix(v \div 2) } })
          ELSE Scale + ExpSeries(v, v, 2) :
          v \in {x} })

(* the linear form of a value kept as [sgn, ln] *)
Lin(a) == IF IsLog(a) THEN Grid(a.sgn * ExpFix(a.ln)) ELSE a
(* sign and logarithm of a finite non-zero value *)
LogForm(a) == IF IsLog(a) THEN a ELSE [sgn |-> Sign(a.n), ln |-> LnFix(Abs(a.n), a.d)]
LogMul(a, b) == [sgn |-> a.sgn * b.sgn, ln |-> a.ln + b.ln]
LogDiv(a, b) == [sgn |-> a.sgn * b.sgn, ln |-> a.ln - b.ln]

FMulV(x, y) ==
    IF IsLog(x) /\ IsLog(y) THEN LogMul(x, y)
    ELSE IF IsLog(x) \/ IsLog(y)
    THEN The({ IF v.d = 0 THEN v
               ELSE IF v.n = 0 THEN Zero
               ELSE LogMul(LogForm(x), LogForm(y)) :
               v \in { IF IsLog(x) THEN y ELSE x } })
    ELSE IF x.d = 0 \/ y.d = 0 THEN Norm(x.n * y.n, 0)
    ELSE IF Fits(x.n, y.n) /\ Fits(x.d, y.d) THEN Norm(x.n * y.n, x.d * y.d)
    ELSE Grid(MulDiv(Fix(x), y.n, y.d))
FMul(a, b) == The({ FMulV(x, y) : x \in {a}, y \in {b} })

FDivV(x, y) ==
    IF IsLog(x) \/ IsLog(y)
    THEN IF ~IsLog(x) /\ x.d = 0 THEN x
         ELSE IF ~IsLog(x) /\ x.n = 0 THEN Zero
         ELSE IF ~IsLog(y) /\ y.d = 0 THEN (IF y.n = 0 THEN NaN ELSE Zero)
         ELSE IF ~IsLog(y) /\ y.n = 0 THEN Norm(LogForm(x).sgn, 0)
         ELSE LogDiv(LogForm(x), LogForm(y))
    ELSE IF x.d = 0 \/ y.d = 0 \/ (Fits(x.n, y.d) /\ Fits(x.d, y.n))
    THEN Norm(x.n * y.d * (IF y.n < 0 THEN -1 ELSE 1), x.d * Abs(y.n))
    ELSE Grid(MulDiv(Fix(x), y.d, Abs(y.n)) * (IF y.n < 0 THEN -1 ELSE 1))
FDiv(a, b) == The({ FDivV(x, y) : x \in {a}, y \in {b} })

FSubV(x, y) ==
    IF x.d = 0 \/ y.d = 0 THEN Norm(x.n * y.d - y.n * x.d, 0)
    ELSE IF Fits(x.n, y.d) /\ Fits(y.n, x.d) /\ Fits(x.d, y.d)
    THEN Norm(x.n * y.d - y.n * x.d, x.d * y.d)
    ELSE Grid(Fix(x) - Fix(y))
FSub(a, b) == The({ FSubV(x, y) : x \in { Lin(a) }, y \in { Lin(b) } })

(* log(): NaN for NaN and negatives, -inf at 0, +inf at +inf *)
FLogV(x) ==
    IF IsLog(x) THEN (IF x.sgn > 0 THEN Grid(x.ln) ELSE NaN)
    ELSE IF x.d = 0 THEN (IF x.n > 0 THEN PInf ELSE NaN)
    ELSE IF x.n < 0 THEN NaN
    ELSE IF x.n = 0 THEN NInf
    ELSE Grid(LnFix(x.n, x.d))
FLog(a) == The({ FLogV(x) : x \in {a} })

(* exp(): +inf at +inf, 0 at -inf, NaN for NaN *)
FExpV(x) ==
    IF x.d = 0 THEN (IF x.n > 0 THEN PInf ELSE IF x.n < 0 THEN Zero ELSE NaN)
    ELSE [sgn |-> 1, ln |-> Fix(x)]
FExp(a) == The({ FExpV(x) : x \in {a} })

(* pow(x, y) for a finite non-integer y: NaN for NaN and negative x;      *)
(* x = 0 gives +inf (y < 0) or 0; x = +-inf gives 0 (y < 0) or +inf       *)
FPowV(x, y) ==
    IF x.d = 0
    THEN (IF x.n = 0 THEN NaN ELSE IF y.n < 0 THEN Zero ELSE PInf)
    ELSE IF x.n < 0 THEN NaN
    ELSE IF x.n = 0 THEN (IF y.n < 0 THEN PInf ELSE Zero)
    ELSE Grid(ExpFix(MulDiv(LnFix(x.n, x.d), y.n, y.d)))
FPow(a, b) == The({ FPowV(x, y) : x \in {a}, y \in {b} })

(* The thermistor conversion of one channel, the four assignments of loop() *)
SupplyVoltage == Num(50, 10)
SeriesResistance == Num(47, 10)
BCoefficient == Num(34529, 10)
PowExponent == Num(-12329, 10^6)
AdcSteps == Num(1024, 1)
ReferenceKelvin == Num(25 * 100 + 27315, 100)
DivisorConstant == Num(10, 1)
KelvinOffset == Num(27315, 100)

VoutOfFullScale1023(raw) == FDiv(FMul(Num(raw, 1), SupplyVoltage), Num(1023, 1))
VoutOf(raw) == FDiv(FMul(Num(raw, 1), SupplyVoltage), AdcSteps)
R1Of(vout) == FSub(FDiv(FMul(SupplyVoltage, SeriesResistance), vout), SeriesResistance)
BOf(r1) == FMul(BCoefficient, FPow(r1, PowExponent))
TOf(r1, b) ==
    FSub(FDiv(b, FLog(FDiv(FMul(r1, FExp(FDiv(b, ReferenceKelvin))), DivisorConstant))),
         KelvinOffset)

ThermistorV(vout, r1, b) == [Vout |-> vout, R1 |-> r1, B |-> b, T |-> TOf(r1, b)]
Thermistor(raw) ==
    The({ The({ The({ ThermistorV(vout, r1, b) : b \in { BOf(r1) } }) :
                r1 \in { R1Of(vout) } }) :
          vout \in { VoutOf(raw) } })

(* ThermistorTable[raw] is Thermistor(raw), evaluated once per sample value *)
RawSamples == {0, 512}
ThermistorTable == [raw \in RawSamples |-> Thermistor(raw)]

(* String(double): two decimals, rounded half away from zero; the sign is *)
(* printed for every negative value; nan and inf are spelled out.         *)
(* Centi(v) is |v| in hundredths, rounded.                                *)
Centi(v) ==
    IF Fits(v.d, 200)
    THEN (Abs(v.n) \div v.d) * 100 + (200 * (Abs(v.n) % v.d) + v.d) \div (2 * v.d)
    ELSE MulDiv(Abs(v.n), 100, v.d)
Digits2(c) == IF c < 10 THEN "0" \o ToString(c) ELSE ToString(c)
StringOf(v) ==
    IF v.d = 0 THEN (IF v.n = 0 THEN "nan" ELSE IF v.n > 0 THEN "inf" ELSE "-inf")
    ELSE (IF v.n < 0 THEN "-" ELSE "")
             \o ToString(Centi(v) \div 100) \o "." \o Digits2(Centi(v) % 100)

(* Serial.println(s) and Serial.print(s): what reaches the output channel *)
SerialPrintln(s) == [text |-> s, nl |-> TRUE]
SerialPrint(s) == [text |-> s, nl |-> FALSE]
InitFailedMessage == "KX224 initialization failed"

(* Serial.read() returns at once, whatever is pending: loop() never waits for input *)
ReadProceedsBlocking(q) == q # << >>
ReadProceeds(q) == TRUE
(* Serial.read(): the oldest pending byte, or -1 when none is pending *)
SerialReadNewest(q) ==
    IF q = <<>> THEN [val |-> -1, rest |-> q]
    ELSE [val |-> q[Len(q)], rest |-> SubSeq(q, 1, Len(q) - 1)]
SerialRead(q) ==
    IF q = <<>> THEN [val |-> -1, rest |-> q] ELSE [val |-> Head(q), rest |-> Tail(q)]
(* int to char (signed, 8 bits) *)
ToChar(i) == LET b == i % 256 IN IF b > 127 THEN b - 256 ELSE b

(* KX224 driver: init() returns a status; get_val(buf) returns a status and *)
(* fills buf with the sample only when the status is 0                      *)
StatusCodes == {0, 4}
AccelSamples ==
    { << Num(16, 1000), Num(-1004, 1000), Num(981, 1000) >>,
      << Num(-250, 1000), Num(500, 1000), Num(3, 1000) >> }
ZeroVector == << Zero, Zero, Zero >>
KxInit(st) == st
KxGetVal(buf, st, sample) == [rc |-> st, data |-> IF st = 0 THEN sample ELSE buf]
(* rc = kx224.get_val(accelerometer_value): the driver writes into the global buffer *)
PollClearing(buf, st, sample) ==
    IF st = 0 THEN KxGetVal(buf, st, sample) ELSE [rc |-> st, data |-> ZeroVector]
Poll(buf, st, sample) == KxGetVal(buf, st, sample)
(* the four assignments of one channel: the globals are overwritten from the *)
(* cycle's raw sample, whatever they held (old)                              *)
ConvertChannelStaleB(raw, old) ==
    [Vout |-> ThermistorTable[raw].Vout, R1 |-> ThermistorTable[raw].R1,
     B |-> BOf(old.R1), T |-> TOf(ThermistorTable[raw].R1, BOf(old.R1))]
ConvertChannelGuarded(raw, old) == IF raw = 0 THEN old ELSE ThermistorTable[raw]
ConvertChannel(raw, old) == ThermistorTable[raw]

(* the vector reports *)
CsvOf(a) == StringOf(a[1]) \o "," \o StringOf(a[2]) \o "," \o StringOf(a[3])
JsonOfSwapped(a) ==
    "{" \o "\"x\":" \o StringOf(a[1]) \o ",\"y\":" \o StringOf(a[2])
        \o ",\"z\":" \o StringOf(a[2]) \o "}"
JsonOf(a) ==
    "{" \o "\"x\":" \o StringOf(a[1]) \o ",\"y\":" \o StringOf(a[2])
        \o ",\"z\":" \o StringOf(a[3]) \o "}"

Cmd1 == 49
Cmd2 == 50
Cmd5 == 53
Bytes == {Cmd1, Cmd2, Cmd5, 120}
MaxRx == 2
MaxOut == 2
MaxReceived == 3

VARIABLES
    sketch,               \* which sketch runs
    pc,                   \* "setup" before setup() has run, "loop" after
    rx,                   \* bytes pending on the serial input
    out,                  \* what was written to the serial output, in order
    read_data, Vout, R1, B, T, Vout_2, R1_2, B_2, T_2,
    accelerometer_value, send_data,     \* the sketch's globals
    rc,                   \* the status byte of the latest driver call
    adc,                  \* what analogRead(0), analogRead(1) returned in the latest cycle
    init_rc,              \* history: the status init() returned
    inits,                \* history: calls of kx224.init()
    polls, reads, lines,  \* history: get_val calls, Serial.read calls, reports of the latest cycle
    lastGood,             \* history: the sample of the latest get_val with status 0
    received,             \* history: the bytes that arrived on the serial input, in order
    consumed              \* history: the bytes Serial.read() returned, in order, each with
                          \*          the answer due to it

globals == << read_data, Vout, R1, B, T, Vout_2, R1_2, B_2, T_2,
              accelerometer_value, send_data >>
vars == << sketch, pc, rx, out, globals, rc, adc, init_rc, inits, polls, reads, lines,
           lastGood, received, consumed >>

Sketches == {"cmd", "accel", "therm"}
(* no analogRead() result: below the ADC range *)
NoSample == 0 - 1
NoVector == << >>

Init ==
    /\ sketch \in Sketches
    /\ pc = "setup"
    /\ rx = << >>
    /\ out = << >>
    /\ read_data = 0
    /\ Vout = Zero /\ R1 = Zero /\ B = Zero /\ T = Zero
    /\ Vout_2 = Zero /\ R1_2 = Zero /\ B_2 = Zero /\ T_2 = Zero
    /\ accelerometer_value = ZeroVector
    /\ send_data = ""
    /\ rc = 0
    /\ adc = << NoSample, NoSample >>
    /\ init_rc = 0
    /\ inits = 0
    /\ polls = 0 /\ reads = 0 /\ lines = 0
    /\ lastGood = NoVector
    /\ received = << >>
    /\ consumed = << >>

(* a byte arrives on the serial line *)
SerialReceive ==
    /\ Len(rx) < MaxRx /\ Len(received) < MaxReceived
    /\ \E b \in Bytes : rx' = Append(rx, b) /\ received' = Append(received, b)
    /\ UNCHANGED << sketch, pc, out, globals, rc, adc, init_rc, inits, polls, reads,
                    lines, lastGood, consumed >>

(* setup(), the same in the three sketches *)
SetupOutAlways(st) == << SerialPrintln(InitFailedMessage) >>
SetupOut(st) == IF st # 0 THEN << SerialPrintln(InitFailedMessage) >> ELSE << >>
(* setup() returns after the if, so loop() is entered whatever the status *)
AfterSetupHalt(st) == IF st # 0 THEN "halt" ELSE "loop"
AfterSetup(st) == "loop"
Setup ==
    /\ pc = "setup"
    /\ \E st \in StatusCodes :
         /\ rc' = KxInit(st)
         /\ init_rc' = KxInit(st)
         /\ out' = out \o SetupOut(KxInit(st))
         /\ pc' = AfterSetup(KxInit(st))
    /\ inits' = inits + 1
    /\ UNCHANGED << sketch, rx, globals, adc, polls, reads, lines, lastGood,
                    received, consumed >>

(* the if / else if chain of the command-gated loop(): the new send_data *)
(* and the lines printed                                                 *)
DispatchSwapped(c, t, t2, acc, sd) ==
    IF c = Cmd1 THEN [send_data |-> StringOf(t), printed |-> << SerialPrintln(StringOf(t)) >>]
    ELSE IF c = Cmd2 THEN [send_data |-> StringOf(t), printed |-> << SerialPrintln(StringOf(t)) >>]
    ELSE IF c = Cmd5 THEN [send_data |-> CsvOf(acc), printed |-> << SerialPrintln(CsvOf(acc)) >>]
    ELSE [send_data |-> sd, printed |-> << >>]
DispatchLoose(c, t, t2, acc, sd) ==
    IF c = Cmd1 THEN [send_data |-> StringOf(t), printed |-> << SerialPrintln(StringOf(t)) >>]
    ELSE IF c = Cmd2 THEN [send_data |-> StringOf(t2), printed |-> << SerialPrintln(StringOf(t2)) >>]
    ELSE IF c >= Cmd5 THEN [send_data |-> CsvOf(acc), printed |-> << SerialPrintln(CsvOf(acc)) >>]
    ELSE [send_data |-> sd, printed |-> << >>]
Dispatch(c, t, t2, acc, sd) ==
    IF c = Cmd1 THEN [send_data |-> StringOf(t), printed |-> << SerialPrintln(StringOf(t)) >>]
    ELSE IF c = Cmd2 THEN [send_data |-> StringOf(t2), printed |-> << SerialPrintln(StringOf(t2)) >>]
    ELSE IF c = Cmd5 THEN [send_data |-> CsvOf(acc), printed |-> << SerialPrintln(CsvOf(acc)) >>]
    ELSE [send_data |-> sd, printed |-> << >>]

(* what a cycle prints, given the status st of its get_val call: the status *)
(* is assigned to the local rc, which no statement of loop() reads          *)
AfterPollDiagnostic(st, printed) ==
    IF st # 0 THEN << SerialPrintln("KX224 get_val failed") >> \o printed ELSE printed
AfterPoll(st, printed) == printed

(* the get_val call of the command-gated loop(): it comes before the if / else *)
(* if chain and is made in every cycle, whatever byte c the cycle read        *)
CmdPollOnlyOn5(c, buf, st, sample) ==
    IF c = Cmd5
    THEN [calls |-> 1, rc |-> Poll(buf, st, sample).rc, data |-> Poll(buf, st, sample).data]
    ELSE [calls |-> 0, rc |-> 0, data |-> buf]
CmdPoll(c, buf, st, sample) ==
    [calls |-> 1, rc |-> Poll(buf, st, sample).rc, data |-> Poll(buf, st, sample).data]

(* history: the answer a byte read in a cycle is due, by the cycle's samples *)
(* a0, a1 and the sample buffer after the cycle's poll ("" for no answer)   *)
AnswerDue(c, a0, a1, buf) ==
    CASE c = Cmd1 -> StringOf(ThermistorTable[a0].T)
      [] c = Cmd2 -> StringOf(ThermistorTable[a1].T)
      [] c = Cmd5 -> CsvOf(buf)
      [] OTHER -> ""

(* loop() of the command-gated sketch *)
LoopCmd ==
    /\ sketch = "cmd" /\ pc = "loop" /\ Len(out) < MaxOut
    /\ ReadProceeds(rx)
    /\ \E a0 \in RawSamples, a1 \in RawSamples, st \in StatusCodes, s \in AccelSamples :
         LET in == SerialRead(rx)
             g  == CmdPoll(ToChar(in.val), accelerometer_value, st, s)
             c0 == ConvertChannel(a0, [Vout |-> Vout, R1 |-> R1, B |-> B, T |-> T])
             c1 == ConvertChannel(a1, [Vout |-> Vout_2, R1 |-> R1_2, B |-> B_2, T |-> T_2])
             d  == Dispatch(ToChar(in.val), c0.T, c1.T, g.data, send_data)
         IN  /\ read_data' = ToChar(in.val)
             /\ rx' = in.rest
             /\ rc' = g.rc
             /\ accelerometer_value' = g.data
             /\ lastGood' = IF g.rc = 0 THEN g.data ELSE lastGood
             /\ adc' = << a0, a1 >>
             /\ Vout' = c0.Vout /\ R1' = c0.R1 /\ B' = c0.B /\ T' = c0.T
             /\ Vout_2' = c1.Vout /\ R1_2' = c1.R1 /\ B_2' = c1.B /\ T_2' = c1.T
             /\ send_data' = d.send_data
             /\ out' = out \o AfterPoll(g.rc, d.printed)
             /\ lines' = Len(AfterPoll(g.rc, d.printed))
             /\ polls' = g.calls
             /\ consumed' = IF in.val = -1 THEN consumed
                            ELSE Append(consumed,
                                        [byte |-> in.val,
                                         answer |-> AnswerDue(in.val, a0, a1, g.data)])
    /\ reads' = 1
    /\ UNCHANGED << sketch, pc, init_rc, inits, received >>

(* loop() of the accelerometer sketch (continuous JSON report) *)
LoopAccel ==
    /\ sketch = "accel" /\ pc = "loop" /\ Len(out) < MaxOut
    /\ \E st \in StatusCodes, s \in AccelSamples :
         LET g == Poll(accelerometer_value, st, s)
         IN  /\ rc' = g.rc
             /\ accelerometer_value' = g.data
             /\ lastGood' = IF g.rc = 0 THEN g.data ELSE lastGood
             /\ send_data' = JsonOf(g.data)
             /\ out' = out \o AfterPoll(g.rc, << SerialPrintln(JsonOf(g.data)) >>)
             /\ lines' = Len(AfterPoll(g.rc, << SerialPrintln(JsonOf(g.data)) >>))
    /\ polls' = 1
    /\ reads' = 0
    /\ UNCHANGED << sketch, pc, rx, read_data, Vout, R1, B, T, Vout_2, R1_2, B_2, T_2,
                    adc, init_rc, inits, received, consumed >>

(* loop() of the accelerometer and thermistor sketch (continuous JSON report) *)
LoopTherm ==
    /\ sketch = "therm" /\ pc = "loop" /\ Len(out) < MaxOut
    /\ \E a0 \in RawSamples, st \in StatusCodes, s \in AccelSamples :
         LET g  == Poll(accelerometer_value, st, s)
             c0 == ConvertChannel(a0, [Vout |-> Vout, R1 |-> R1, B |-> B, T |-> T])
         IN  /\ rc' = g.rc
             /\ accelerometer_value' = g.data
             /\ lastGood' = IF g.rc = 0 THEN g.data ELSE lastGood
             /\ adc' = << a0, NoSample >>
             /\ Vout' = c0.Vout /\ R1' = c0.R1 /\ B' = c0.B /\ T' = c0.T
             /\ send_data' = JsonOf(g.data)
             /\ out' = out \o AfterPoll(g.rc, << SerialPrint(JsonOf(g.data)) >>)
             /\ lines' = Len(AfterPoll(g.rc, << SerialPrint(JsonOf(g.data)) >>))
    /\ polls' = 1
    /\ reads' = 0
    /\ UNCHANGED << sketch, pc, rx, read_data, Vout_2, R1_2, B_2, T_2, init_rc, inits,
                    received, consumed >>

Next == SerialReceive \/ Setup \/ LoopCmd \/ LoopAccel \/ LoopTherm

Spec == Init /\ [][Next]_vars

(* The first two assignments of a channel's conversion, on their own, for  *)
(* every value analogRead() can return: the raw sample of one channel is   *)
(* drawn at the start, and the step computes that channel's Vout and R1.   *)
AdcRange == 0 .. 1023
InitResistance ==
    /\ sketch = "cmd"
    /\ pc = "convert"
    /\ adc \in { << r, NoSample >> : r \in AdcRange } \cup { << NoSample, r >> : r \in AdcRange }
    /\ rx = << >> /\ out = << >> /\ read_data = 0 /\ send_data = ""
    /\ Vout = Zero /\ R1 = Zero /\ B = Zero /\ T = Zero
    /\ Vout_2 = Zero /\ R1_2 = Zero /\ B_2 = Zero /\ T_2 = Zero
    /\ accelerometer_value = ZeroVector
    /\ rc = 0 /\ init_rc = 0 /\ inits = 0 /\ polls = 0 /\ reads = 0 /\ lines = 0
    /\ lastGood = NoVector /\ received = << >> /\ consumed = << >>

ConvertResistance0 ==
    /\ pc = "convert" /\ adc[1] # NoSample
    /\ Vout' = VoutOf(adc[1])
    /\ R1' = R1Of(VoutOf(adc[1]))
    /\ pc' = "converted"
    /\ UNCHANGED << sketch, rx, out, read_data, B, T, Vout_2, R1_2, B_2, T_2,
                    accelerometer_value, send_data, rc, adc, init_rc, inits, polls,
                    reads, lines, lastGood, received, consumed >>

ConvertResistance1 ==
    /\ pc = "convert" /\ adc[2] # NoSample
    /\ Vout_2' = VoutOf(adc[2])
    /\ R1_2' = R1Of(VoutOf(adc[2]))
    /\ pc' = "converted"
    /\ UNCHANGED << sketch, rx, out, read_data, Vout, R1, B, T, B_2, T_2,
                    accelerometer_value, send_data, rc, adc, init_rc, inits, polls,
                    reads, lines, lastGood, received, consumed >>

NextResistance == ConvertResistance0 \/ ConvertResistance1

SpecResistance == InitResistance /\ [][NextResistance]_vars

(***************************************************************************)
(* The claims                                                              *)
(***************************************************************************)
Recognized == {Cmd1, Cmd2, Cmd5}
AllBytes == 0 .. 255
LastOut == out[Len(out)]
Loop == LoopCmd \/ LoopAccel \/ LoopTherm
(* the vector the latest successful poll left in the buffer (zeros before any) *)
LatestVector == IF lastGood = NoVector THEN ZeroVector ELSE lastGood

(* the payload the command in read_data asks for *)
CommandPayload ==
    CASE read_data = Cmd1 -> StringOf(ThermistorTable[adc[1]].T)
      [] read_data = Cmd2 -> StringOf(ThermistorTable[adc[2]].T)
      [] read_data = Cmd5 -> CsvOf(LatestVector)
      [] OTHER -> ""

(* C1: in the command-gated sketch a cycle that reads a recognized command  *)
(* appends exactly one line to the output, with the payload of the command: *)
(* '1' the temperature of channel 0's sample of that cycle, '2' that of     *)
(* channel 1's sample of that cycle, '5' the comma-separated vector left by *)
(* the latest successful poll.                                              *)
C1_CommandRouting ==
    [][LoopCmd /\ rx # << >> /\ Head(rx) \in Recognized
         => /\ read_data' = Head(rx)
            /\ out' = Append(out, SerialPrintln(CommandPayload'))]_vars
C1_Witness ==
    /\ sketch = "cmd" /\ read_data = Cmd2 /\ lines = 1
    /\ adc = << 0, 512 >>
    /\ LastOut = SerialPrintln("46.22")

(* C2 as claimed: a cycle that reads an unrecognized byte emits nothing and *)
(* leaves the sample buffer, the temperature variables and the send buffer  *)
(* as they were.                                                            *)
C2_NoStateMutation ==
    [][LoopCmd /\ rx # << >> /\ Head(rx) \notin Recognized
         => /\ out' = out
            /\ UNCHANGED << accelerometer_value, Vout, R1, B, T, Vout_2, R1_2, B_2, T_2,
                            send_data >>]_vars
(* C2 amended: for every byte of 0..255 other than '1', '2', '5' the chain  *)
(* prints nothing and keeps the send buffer; a cycle that reads such a byte *)
(* emits no line and keeps the send buffer, and still performs the cycle's  *)
(* acquisition, which overwrites the temperature variables from the cycle's *)
(* samples and, on a successful poll, the sample buffer.                    *)
C2_UnrecognizedIgnored ==
    /\ [](\A b \in AllBytes \ Recognized :
            Dispatch(ToChar(b), T, T_2, accelerometer_value, send_data)
                = [send_data |-> send_data, printed |-> << >>])
    /\ [][LoopCmd /\ rx # << >> /\ Head(rx) \notin Recognized
            => /\ out' = out /\ send_data' = send_data
               /\ T' = ThermistorTable[adc'[1]].T /\ T_2' = ThermistorTable[adc'[2]].T
               /\ accelerometer_value' = LatestVector']_vars
C2_Witness ==
    /\ sketch = "cmd" /\ read_data = 120 /\ reads = 1 /\ lines = 0
    /\ adc = << 512, 0 >> /\ rc = 0 /\ out = << >>
    /\ T = ThermistorTable[512].T /\ accelerometer_value # ZeroVector

(* C3: a poll that fails leaves the sample buffer as it was, and the vector *)
(* a '5' command prints is the one the latest successful poll obtained.     *)
C3_StaleRead ==
    /\ [][Loop /\ rc' # 0 => accelerometer_value' = accelerometer_value]_vars
    /\ [][LoopCmd /\ read_data' = Cmd5 /\ lastGood' # NoVector
            => out' = Append(out, SerialPrintln(CsvOf(lastGood')))]_vars
C3_Witness ==
    /\ sketch = "cmd" /\ read_data = Cmd5 /\ rc # 0 /\ lines = 1
    /\ lastGood # NoVector /\ LastOut = SerialPrintln(CsvOf(lastGood))

(* C4: when init() fails, loop() is entered all the same and stays enabled  *)
(* (no halt), and a '1' or '2' command is answered by the temperature line  *)
(* of that cycle's sample, the line a successful init() would have given.   *)
C4_DegradedMode ==
    inits = 1 /\ init_rc # 0
      => /\ pc = "loop"
         /\ (Len(out) < MaxOut => ENABLED Loop)
         /\ (sketch = "cmd" /\ lines = 1 /\ read_data = Cmd1
               => LastOut = SerialPrintln(StringOf(ThermistorTable[adc[1]].T)))
         /\ (sketch = "cmd" /\ lines = 1 /\ read_data = Cmd2
               => LastOut = SerialPrintln(StringOf(ThermistorTable[adc[2]].T)))
C4_Witness ==
    /\ sketch = "cmd" /\ init_rc # 0 /\ read_data = Cmd1 /\ lines = 1 /\ adc[1] = 512
    /\ out = << SerialPrintln(InitFailedMessage), SerialPrintln("46.22") >>

(* C5: in the command-gated sketch loop() can always run, a byte pending or *)
(* not; a cycle with no byte pending reads -1, emits nothing, and samples   *)
(* both channels and polls the accelerometer as every cycle does.           *)
C5_NonBlockingPoll ==
    /\ [](sketch = "cmd" /\ pc = "loop" /\ Len(out) < MaxOut => ENABLED LoopCmd)
    /\ [][LoopCmd /\ rx = << >>
            => /\ read_data' = -1 /\ rx' = << >>
               /\ out' = out /\ send_data' = send_data
               /\ adc'[1] \in RawSamples /\ adc'[2] \in RawSamples
               /\ T' = ThermistorTable[adc'[1]].T /\ T_2' = ThermistorTable[adc'[2]].T
               /\ polls' = 1 /\ accelerometer_value' = LatestVector']_vars
C5_Witness ==
    /\ sketch = "cmd" /\ reads = 1 /\ read_data = -1 /\ rx = << >> /\ lines = 0
    /\ out = << >> /\ adc = << 512, 0 >> /\ rc = 0 /\ accelerometer_value # ZeroVector
    /\ ENABLED LoopCmd

(* the JSON object of the sample buffer, as text *)
JsonShape(x, y, z) == "{\"x\":" \o x \o ",\"y\":" \o y \o ",\"z\":" \o z \o "}"
BufferAsJson ==
    JsonShape(StringOf(accelerometer_value[1]), StringOf(accelerometer_value[2]),
              StringOf(accelerometer_value[3]))

(* C6: in the continuous sketches every cycle polls once, reads no input    *)
(* (pending bytes stay pending) and appends one report, the JSON object of  *)
(* the sample buffer; the cycle can run whatever is pending on the input.   *)
C6_ContinuousReport ==
    /\ [][LoopAccel \/ LoopTherm
            => /\ polls' = 1 /\ reads' = 0 /\ rx' = rx /\ read_data' = read_data
               /\ Len(out') = Len(out) + 1
               /\ SubSeq(out', 1, Len(out)) = out
               /\ out'[Len(out')].text = BufferAsJson'
               /\ accelerometer_value' = LatestVector']_vars
    /\ [](sketch \in {"accel", "therm"} /\ pc = "loop" /\ Len(out) < MaxOut
            => ENABLED (LoopAccel \/ LoopTherm))
C6_Witness ==
    /\ sketch = "therm" /\ lines = 1 /\ Len(rx) = MaxRx /\ Len(out) = 2
    /\ accelerometer_value # ZeroVector /\ rc # 0
    /\ LastOut.text = BufferAsJson

(* C7: every report on the output is followed by a line terminator. *)
C7_LineTerminated == \A i \in 1 .. Len(out) : out[i].nl

(* the places of the diagnostic on the output *)
Diagnostics == { i \in 1 .. Len(out) : out[i].text = InitFailedMessage }

(* C8: init() is called once, in setup(); the diagnostic is on the output   *)
(* exactly when init() has failed, once, as the first line (before every    *)
(* report), and never when init() succeeded.                                *)
C8_StartupDiagnostics ==
    /\ inits = (IF pc = "setup" THEN 0 ELSE 1)
    /\ Diagnostics = (IF pc # "setup" /\ init_rc # 0 THEN {1} ELSE {})
    /\ \A i \in Diagnostics : out[i].nl
C8_Witness ==
    /\ init_rc # 0 /\ Len(out) = 2 /\ polls = 1
    /\ out[1] = SerialPrintln(InitFailedMessage) /\ out[2].text # InitFailedMessage

(* the conversion variables of the two channels *)
Channel0 == [Vout |-> Vout, R1 |-> R1, B |-> B, T |-> T]
Channel1 == [Vout |-> Vout_2, R1 |-> R1_2, B |-> B_2, T |-> T_2]

(* C9: the conversion variables of a channel are a function of the raw      *)
(* sample the cycle read on it: they equal the conversion of that sample,   *)
(* whatever preceded, and a cycle that reads the sample the cycle before    *)
(* read computes the same temperature.                                      *)
C9_ConversionDeterminism ==
    /\ [](adc[1] # NoSample => Channel0 = ThermistorTable[adc[1]])
    /\ [](adc[2] # NoSample => Channel1 = ThermistorTable[adc[2]])
    /\ [][Loop /\ adc'[1] = adc[1] => T' = T]_vars
    /\ [][Loop /\ adc'[2] = adc[2] => T_2' = T_2]_vars
C9_Witness ==
    /\ sketch = "cmd" /\ polls = 1 /\ adc = << 512, 512 >> /\ T = T_2 /\ T.d > 0
    /\ Len(out) = 1 /\ rc # 0

(* -273.15, and how String() spells the non-finite values *)
AbsoluteZero == Num(-27315, 100)
NonFiniteText == {"nan", "inf", "-inf"}

(* C10 as claimed: a raw sample of 0 gives a non-finite temperature, and a  *)
(* '1' or '2' command of that cycle emits the line carrying it.             *)
C10_NonFinitePropagated ==
    /\ (adc[1] = 0 => T.d = 0)
    /\ (adc[2] = 0 => T_2.d = 0)
    /\ (sketch = "cmd" /\ lines = 1 /\ read_data = Cmd1 /\ adc[1] = 0
          => LastOut.text \in NonFiniteText)
    /\ (sketch = "cmd" /\ lines = 1 /\ read_data = Cmd2 /\ adc[2] = 0
          => LastOut.text \in NonFiniteText)
(* C10 amended: a raw sample of 0 is converted like any other: the          *)
(* resistance is +infinity, B is 0 and the temperature is the finite value  *)
(* -273.15; a '1' or '2' command of that cycle emits one line, "-273.15";   *)
(* loop() stays enabled, and the next cycle that reads a sample in 1..1023  *)
(* computes the finite temperature of that sample.                          *)
C10_ZeroSample ==
    /\ [](adc[1] = 0 => R1 = PInf /\ B = Zero /\ T = AbsoluteZero)
    /\ [](adc[2] = 0 => R1_2 = PInf /\ B_2 = Zero /\ T_2 = AbsoluteZero)
    /\ [](sketch = "cmd" /\ lines = 1 /\ read_data = Cmd1 /\ adc[1] = 0
            => LastOut = SerialPrintln("-273.15"))
    /\ [](sketch = "cmd" /\ lines = 1 /\ read_data = Cmd2 /\ adc[2] = 0
            => LastOut = SerialPrintln("-273.15"))
    /\ [](pc = "loop" /\ Len(out) < MaxOut => ENABLED Loop)
    /\ [][Loop /\ adc[1] = 0 /\ adc'[1] \in 1 .. 1023
            => T' = ThermistorTable[adc'[1]].T /\ T'.d > 0]_vars
    /\ [][Loop /\ adc[2] = 0 /\ adc'[2] \in 1 .. 1023
            => T_2' = ThermistorTable[adc'[2]].T /\ T_2'.d > 0]_vars
C10_Witness ==
    /\ sketch = "cmd" /\ read_data = Cmd1 /\ lines = 1 /\ adc = << 0, 512 >>
    /\ R1 = PInf /\ T = AbsoluteZero /\ LastOut = SerialPrintln("-273.15")
    /\ Len(out) < MaxOut /\ ENABLED LoopCmd

(* C12 as claimed: in the command-gated sketch a cycle issues a get_val call *)
(* only when the byte it read is '5'.                                        *)
C12_ConditionalPoll ==
    [][LoopCmd => polls' = (IF read_data' = Cmd5 THEN 1 ELSE 0)]_vars

(* C12 amended: in the command-gated sketch every cycle issues exactly one   *)
(* get_val call, whatever it read (no byte, '1', '2', '5' or another byte);  *)
(* a successful call refreshes the sample buffer also in a cycle that did    *)
(* not read '5', and '5' only decides whether the buffer is printed.         *)
C12_UnconditionalPoll ==
    [][LoopCmd => /\ polls' = 1
                  /\ rc' \in StatusCodes
                  /\ (rc' = 0 => accelerometer_value' = lastGood')
                  /\ (lines' = 1 /\ LastOut'.text = CsvOf(accelerometer_value')
                        => read_data' = Cmd5)]_vars
(* no line was ever printed, so no cycle read '5', and the buffer holds a sample *)
C12_Witness ==
    /\ sketch = "cmd" /\ pc = "loop" /\ out = << >>
    /\ polls = 1 /\ read_data \notin Recognized
    /\ rc = 0 /\ accelerometer_value \in AccelSamples

(* the vectors the sample buffer can hold, and the reports a cycle is due:  *)
(* by the sketch and the byte read, never by the status of the poll         *)
Vectors == AccelSamples \cup {ZeroVector}
ReportsDue ==
    CASE sketch = "cmd" /\ read_data \in {Cmd1, Cmd2} ->
             { SerialPrintln(StringOf(ThermistorTable[r].T)) : r \in RawSamples }
      [] sketch = "cmd" /\ read_data = Cmd5 -> { SerialPrintln(CsvOf(v)) : v \in Vectors }
      [] sketch = "accel" -> { SerialPrintln(JsonOf(v)) : v \in Vectors }
      [] sketch = "therm" -> { SerialPrint(JsonOf(v)) : v \in Vectors }
      [] OTHER -> {}

(* C13: in every sketch a cycle prints the reports its sketch and command   *)
(* call for (none or one line, of the report's shape, never a diagnostic),  *)
(* the same whether its poll returned 0 or not; after the poll, failed or   *)
(* not, loop() goes on, and the status recorded at init() is not touched.   *)
C13_PollFailureAbsorbed ==
    [][Loop => /\ Len(out') = Len(out) + (IF ReportsDue' = {} THEN 0 ELSE 1)
               /\ \A i \in Len(out) + 1 .. Len(out') :
                     out'[i] \in ReportsDue' /\ out'[i].text # InitFailedMessage
               /\ lines' = Len(out') - Len(out)
               /\ pc' = "loop" /\ init_rc' = init_rc /\ inits' = inits]_vars
(* init() succeeded, the poll of the one cycle so far failed, its report is out *)
C13_Witness ==
    /\ pc = "loop" /\ init_rc = 0 /\ rc # 0 /\ polls = 1
    /\ Len(out) = 1 /\ lines = 1 /\ LastOut \in ReportsDue
    /\ (sketch = "cmd" => read_data = Cmd5)

(* the bytes consumed so far, the recognized ones among them with the       *)
(* answers due, and the reports on the output (the lines after the          *)
(* diagnostic of a failed init())                                           *)
ConsumedBytes == [i \in 1 .. Len(consumed) |-> consumed[i].byte]
IsCommand(r) == r.byte \in Recognized
Commands == SelectSeq(consumed, IsCommand)
Reports == IF pc # "setup" /\ init_rc # 0 THEN Tail(out) ELSE out

(* C14: in the command-gated sketch a cycle calls Serial.read() once, so    *)
(* takes at most one byte, and prints at most one line; the bytes that      *)
(* arrived are the bytes consumed followed by the bytes pending, in arrival *)
(* order (none consumed twice, skipped or out of turn); there are as many   *)
(* reports as recognized                                                    *)
(* bytes consumed, and the k-th report is the answer due to the k-th        *)
(* recognized byte.                                                         *)
C14_FifoConsumption ==
    sketch = "cmd"
      => /\ reads \in {0, 1} /\ lines \in {0, 1}
         /\ received = ConsumedBytes \o rx
         /\ Len(Reports) = Len(Commands)
         /\ \A k \in 1 .. Len(Reports) : Reports[k] = SerialPrintln(Commands[k].answer)
(* three bytes consumed, the unrecognized one between two commands, two reports *)
C14_Witness ==
    /\ sketch = "cmd" /\ init_rc = 0 /\ rx = << >>
    /\ ConsumedBytes = << Cmd2, 120, Cmd5 >>
    /\ Len(out) = 2 /\ out[1] # out[2]

(* the resistance computed for channel ch (1 for analogRead(0), 2 for analogRead(1)) *)
ResistanceOf(ch) == IF ch = 1 THEN R1 ELSE R1_2

(* C15: for every raw sample in 1..1023 the resistance computed is          *)
(* 4.7*(1024-raw)/raw, a finite value above zero; for the raw sample 0 it   *)
(* is +infinity: 0 is the one sample that takes the step out of its domain. *)
C15_ResistanceDomain ==
    pc = "converted"
      => \A ch \in {1, 2} :
           /\ adc[ch] \in 1 .. 1023
                => /\ ResistanceOf(ch) = Num(47 * (1024 - adc[ch]), 10 * adc[ch])
                   /\ ResistanceOf(ch).d > 0 /\ ResistanceOf(ch).n > 0
           /\ adc[ch] = 0 => ResistanceOf(ch) = PInf
(* the largest sample, on channel 0: the smallest resistance, 47/10230 *)
C15_Witness ==
    pc = "converted" /\ adc[1] = 1023 /\ R1 = Num(47, 10230) /\ Vout = Num(5115, 1024)
====
